---- MODULE Spec2Model ----
(***************************************************************************)
(* Discord -> Altrady signal forwarder (src/discord_to_altrady.py).        *)
(*                                                                         *)
(* Prices are integers in thousandths (PRICE_SCALE units per 1.0), so a    *)
(* level can be finer than an instrument's tick. The stop-loss percentage  *)
(* and the leverage are computed in IEEE binary64, as Python computes      *)
(* them; the other float values (tick rounding, touch tolerance, closes)   *)
(* are read as exact rationals. A message text is a sequence of lines; a   *)
(* line is a record of the fields the parser's regular expressions can     *)
(* find in it.                                                             *)
(* Time inside wait_for_touch_and_send is counted in half seconds.         *)
(***************************************************************************)
EXTENDS Integers, Sequences, FiniteSets, TLC

VARIABLES
    \* configuration read from the environment at import time
    MAX_LEVERAGE,             \* int(os.getenv("MAX_LEVERAGE", "75"))
    COIN_LEV_CAPS,            \* per-instrument leverage caps
    LEG_FILTER,               \* leg filter on/off
    LEG_REQUIRE_TREND_MATCH,  \* trend match required
    LEG_FAIL_MODE,            \* "skip" | "open"
    ENTRY_TOUCH_ORDER_TYPE,   \* "market" | "limit" | anything else
    TP_SPLITS_RAW,            \* os.getenv("TP_SPLITS", "20,80"), split at ","
    \* main(): the loop's locals and the persisted state
    pc,          \* position of main(): sleep, block, evaluating, waiting, post
    chan,        \* the channel's latest message (None when the channel is empty)
    msg,         \* main()'s local msg (kept from the previous iteration)
    last_id,     \* main()'s local last_id (0 stands for None)
    saved,       \* last_id as written by save_state
    blocks,      \* extract_signal_blocks(msg) of the message being processed
    idx,         \* the for loop's idx: the block being, or last, processed
    parsed,      \* parse_signal_text's result for the current block
    \* wait_for_touch_and_send
    first,       \* the first price fetch: [st: "none" | "fail" | "ok", price]
    last,        \* last fetched price (-1: none / fetch failed)
    elapsed,     \* half seconds since t0, at the loop's time check
    wpath,       \* path taken: none, failopen, immediate, waiting, touched, timedout
    payload,     \* payload handed to post_to_altrady (None before any dispatch)
    attempt,     \* post_to_altrady's attempt counter
    calls,       \* calls of post_to_altrady made by the current call
    \* history of the run
    ticks,       \* number of poll ticks so far
    bstate,      \* per block of the current pass: its outcome so far
    parsedCnt,   \* per message id and block: calls of parse_signal_text
    dispatchCnt, \* per message id and block: calls of post_to_altrady
    acceptedCnt, \* per message id and block: POSTs the gateway accepted
    nblocks,     \* per message id: number of extracted blocks
    decided,     \* per message id: blocks that reached a terminal outcome
    result       \* result of the pure-function harness (SpecParse)

cfgvars == <<MAX_LEVERAGE, COIN_LEV_CAPS, LEG_FILTER, LEG_REQUIRE_TREND_MATCH,
             LEG_FAIL_MODE, ENTRY_TOUCH_ORDER_TYPE, TP_SPLITS_RAW>>
mainvars == <<pc, chan, msg, last_id, saved, blocks, idx, parsed>>
touchvars == <<first, last, elapsed, wpath, payload, attempt, calls>>
histvars == <<ticks, bstate, parsedCnt, dispatchCnt, acceptedCnt, nblocks,
             decided>>
vars == <<cfgvars, mainvars, touchvars, histvars, result>>

None == [none |-> TRUE]

-----------------------------------------------------------------------------
\* Bounds of the model: message ids, poll ticks of main(), and the extra
\* half seconds one price fetch can take

MaxMsgId == 1
MaxTicks == 2
MaxFetchDelay == 1
MaxLines == 4
MaxCloses == 4
MaxParts == 3

-----------------------------------------------------------------------------
\* Configuration constants

PRICE_SCALE == 10 * 10 * 10
SAFETY_PCT == 80
ENTRY_EXPIRATION_MIN == 15
ALTRADY_EXCHANGE == "BIFU"
QUOTE == "USDT"
\* ENTRY_TOL_PCT in 1/TOL_UNIT of the entry: 5 is 0.05 %
ENTRY_TOL_PCT == 5
TOL_UNIT == 100 * 100
\* ENTRY_WAIT_MAX_SEC and ENTRY_POLL_SEC, in seconds (a short wait budget)
ENTRY_WAIT_MAX_SEC == 3
ENTRY_POLL_SEC == 2
LEG_ZIGZAG_PCT == 10

\* One part of the TP_SPLITS string between commas: text float() rejects
\* (or a non-finite value int() rejects), or a number, held in tenths
BadPart == [num |-> FALSE, tenths |-> 0]
NumPart(tenths) == [num |-> TRUE, tenths |-> tenths]

\* int(float(part)): truncation toward zero
IntOfPart(part) ==
    IF part.tenths >= 0 THEN part.tenths \div 10 ELSE -((-part.tenths) \div 10)

\* parse_tp_splits without the test that the two parts sum to 100
parse_tp_splits_no_sum(raw) ==
    IF Len(raw) # 2 \/ ~raw[1].num \/ ~raw[2].num THEN <<20, 80>>
    ELSE LET a == IntOfPart(raw[1])
             b == IntOfPart(raw[2])
         IN  IF a <= 0 \/ b <= 0 \/ a > 100 \/ b > 100
             THEN <<20, 80>> ELSE <<a, b>>

\* parse_tp_splits: the two percentages, or the fallback 20, 80
parse_tp_splits(raw) ==
    IF Len(raw) # 2 \/ ~raw[1].num \/ ~raw[2].num THEN <<20, 80>>
    ELSE LET a == IntOfPart(raw[1])
             b == IntOfPart(raw[2])
         IN  IF a <= 0 \/ b <= 0 \/ a > 100 \/ b > 100 \/ a + b # 100
             THEN <<20, 80>> ELSE <<a, b>>

\* TP1_PCT, TP2_PCT = parse_tp_splits(TP_SPLITS_RAW)
TP1_PCT == parse_tp_splits(TP_SPLITS_RAW)[1]
TP2_PCT == parse_tp_splits(TP_SPLITS_RAW)[2]

\* the default "20,80"
DefaultSplits == <<NumPart(200), NumPart(800)>>

Min(a, b) == IF a < b THEN a ELSE b
Max(a, b) == IF a > b THEN a ELSE b

-----------------------------------------------------------------------------
\* Message text

Line(kw, base, quote, price, tp1, tp2, sl) ==
    [kw |-> kw, base |-> base, quote |-> quote, price |-> price,
     tp1 |-> tp1, tp2 |-> tp2, sl |-> sl, blank |-> FALSE, noise |-> FALSE]

\* a line with none of the parser's fields ("" and -1 stand for no match)
TextLine == Line("", "", "", -1, -1, -1, -1)
BlankLine == [TextLine EXCEPT !.blank = TRUE]
\* "Timeframe: M5"
NoiseLine == [TextLine EXCEPT !.noise = TRUE]

\* BUYSELL_LINE matches a line holding the word BUY or SELL
IsKeywordLine(l) == l.kw \in {"BUY", "SELL"}

RECURSIVE LStrip(_)
LStrip(s) == IF s # <<>> /\ Head(s).blank THEN LStrip(Tail(s)) ELSE s

RECURSIVE RStrip(_)
RStrip(s) ==
    IF s # <<>> /\ s[Len(s)].blank THEN RStrip(SubSeq(s, 1, Len(s) - 1)) ELSE s

Strip(s) == RStrip(LStrip(s))

\* source_text(): content, then the first embed's description, stripped
source_text(m) ==
    Strip(m.content \o (IF m.embeds # <<>> THEN m.embeds[1] ELSE <<>>))

\* m.start() of the match whose keyword line is line k: "^\s*" also takes the
\* whitespace-only lines right before the keyword line
RECURSIVE MatchStart(_, _)
MatchStart(raw, k) ==
    IF k > 1 /\ raw[k - 1].blank THEN MatchStart(raw, k - 1) ELSE k

KeywordStarts(raw) ==
    LET ks == {k \in 1..Len(raw) : IsKeywordLine(raw[k])}
    IN  {MatchStart(raw, k) : k \in ks}

\* the elements of a finite set of integers, ascending
RECURSIVE SortedSeq(_)
SortedSeq(S) ==
    IF S = {} THEN <<>>
    ELSE LET m == CHOOSE x \in S : \A y \in S : x <= y
         IN  <<m>> \o SortedSeq(S \ {m})

\* chunk[:m_blank.start()] for the first "\n\s*\n": the lines before the
\* first whitespace-only line that is not the chunk's first line
TruncateAtBlank(chunk) ==
    LET js == {j \in 2..Len(chunk) : chunk[j].blank}
    IN  IF js = {} THEN chunk
        ELSE SubSeq(chunk, 1, (CHOOSE j \in js : \A i \in js : j <= i) - 1)

NotNoise(l) == ~l.noise

\* one chunk of extract_signal_blocks: truncated, "Timeframe:" lines removed,
\* stripped
CleanChunk(chunk) == Strip(SelectSeq(TruncateAtBlank(chunk), NotNoise))

\* a test that keeps every chunk, also one without a keyword line
HasKeywordLine_any(chunk) == TRUE

HasKeywordLine(chunk) == \E j \in 1..Len(chunk) : IsKeywordLine(chunk[j])

\* the loop of extract_signal_blocks: for every start its cleaned chunk, the
\* chunks without a keyword line left out
PairHasKeywordLine(p) == HasKeywordLine(p.chunk)

extract_chunks(m) ==
    LET raw == source_text(m)
        starts == SortedSeq(KeywordStarts(raw))
        chunkOf(i) ==
            CleanChunk(SubSeq(raw, starts[i],
                IF i + 1 <= Len(starts) THEN starts[i + 1] - 1 ELSE Len(raw)))
        all == [i \in 1..Len(starts) |-> [start |-> starts[i], chunk |-> chunkOf(i)]]
    IN  SelectSeq(all, PairHasKeywordLine)

extract_signal_blocks(m) ==
    [i \in 1..Len(extract_chunks(m)) |-> extract_chunks(m)[i].chunk]

-----------------------------------------------------------------------------
\* Parser

TICK_MAP ==
    [b \in {"SHIB", "1000SHIB", "DOGE", "XRP", "SOL", "AVAX", "AAVE", "LINK",
            "BTC", "ETH", "BNB", "LTC", "ADA", "MATIC", "EOS", "BCH", "ATOM",
            "ALGO", "LUNA2"} |->
        CASE b \in {"SHIB", "1000SHIB"} -> 8
          [] b \in {"DOGE", "ADA", "MATIC", "ALGO"} -> 5
          [] b \in {"XRP", "EOS"} -> 4
          [] b \in {"AVAX", "LINK", "ATOM", "LUNA2"} -> 3
          [] OTHER -> 2]

RECURSIVE Pow10(_)
Pow10(d) == IF d = 0 THEN 1 ELSE 10 * Pow10(d - 1)

\* Python's round(): n / q to the nearest integer, ties to the even one
RoundHalfEven(n, q) ==
    LET f == n \div q
        r == n % q
    IN  IF 2 * r < q THEN f
        ELSE IF 2 * r > q THEN f + 1
        ELSE IF f % 2 = 0 THEN f ELSE f + 1

\* round(v * 10^d) / 10^d on a price in 1/PRICE_SCALE units
round_tick(sym, v) ==
    LET d == IF sym \in DOMAIN TICK_MAP THEN TICK_MAP[sym] ELSE 4
        p == Pow10(d)
    IN  IF p >= PRICE_SCALE THEN v
        ELSE (PRICE_SCALE \div p) * RoundHalfEven(v, PRICE_SCALE \div p)

\* re.search over the block: the first line in which the field matches
FirstLineWith(t, Has(_)) ==
    LET js == {j \in 1..Len(t) : Has(t[j])}
    IN  IF js = {} THEN 0 ELSE CHOOSE j \in js : \A i \in js : j <= i

HasSide(l) == l.kw # ""
HasPair(l) == l.base # ""
HasEntry(l) == l.price >= 0
HasTP1(l) == l.tp1 >= 0
HasTP2(l) == l.tp2 >= 0
HasSL(l) == l.sl >= 0

\* Naturals wider than the model checker's integers, as Python's floats need
\* them: little-endian limbs below Limb, without a leading zero limb
LimbBits == 15
Limb == 2^LimbBits

RECURSIVE BigNorm(_)
BigNorm(a) ==
    IF a = <<>> THEN a
    ELSE IF a[Len(a)] = 0 THEN BigNorm(SubSeq(a, 1, Len(a) - 1)) ELSE a

RECURSIVE Big(_)
Big(n) == IF n = 0 THEN <<>> ELSE <<n % Limb>> \o Big(n \div Limb)

\* the value of a, for an a that fits
RECURSIVE BigInt(_)
BigInt(a) == IF a = <<>> THEN 0 ELSE a[1] + Limb * BigInt(Tail(a))

RECURSIVE BigCmpAt(_, _, _)
BigCmpAt(a, b, i) ==
    IF i = 0 THEN 0
    ELSE IF a[i] < b[i] THEN -1
    ELSE IF a[i] > b[i] THEN 1
    ELSE BigCmpAt(a, b, i - 1)

\* -1, 0 or 1 as a is below, equal to or above b
BigCmp(a, b) ==
    IF Len(a) < Len(b) THEN -1
    ELSE IF Len(a) > Len(b) THEN 1
    ELSE BigCmpAt(a, b, Len(a))

RECURSIVE BigSubAt(_, _, _, _)
BigSubAt(a, b, i, borrow) ==
    IF i > Len(a) THEN <<>>
    ELSE LET d == a[i] - (IF i <= Len(b) THEN b[i] ELSE 0) - borrow
         IN  IF d < 0 THEN <<d + Limb>> \o BigSubAt(a, b, i + 1, 1)
             ELSE <<d>> \o BigSubAt(a, b, i + 1, 0)

\* a - b for a >= b
BigSub(a, b) == BigNorm(BigSubAt(a, b, 1, 0))

RECURSIVE BigMulAt(_, _, _, _)
BigMulAt(a, k, i, carry) ==
    IF i > Len(a) THEN (IF carry = 0 THEN <<>> ELSE <<carry>>)
    ELSE LET v == a[i] * k + carry
         IN  <<v % Limb>> \o BigMulAt(a, k, i + 1, v \div Limb)

\* a * k + c for 0 <= k <= Limb and 0 <= c < Limb
BigMulAdd(a, k, c) == BigNorm(BigMulAt(a, k, 1, c))
BigMulSmall(a, k) == BigMulAdd(a, k, 0)

\* a * 2^k
BigShl(a, k) ==
    IF a = <<>> THEN a
    ELSE [i \in 1..(k \div LimbBits) |-> 0] \o BigMulSmall(a, 2^(k % LimbBits))

RECURSIVE IntBits(_)
IntBits(n) == IF n = 0 THEN 0 ELSE 1 + IntBits(n \div 2)

\* the bit length of a, and its bit i (bit 0 is the lowest)
BigBits(a) ==
    IF a = <<>> THEN 0 ELSE LimbBits * (Len(a) - 1) + IntBits(a[Len(a)])
BigBit(a, i) ==
    LET j == i \div LimbBits + 1
    IN  IF j > Len(a) THEN 0 ELSE (a[j] \div 2^(i % LimbBits)) % 2

\* One step of the division by d by shift and subtract: the remainder r2,
\* with the next bit of the dividend brought down, against d
BigDivStep(d, q, r2) ==
    IF BigCmp(r2, d) >= 0
    THEN [q |-> BigMulAdd(q, 2, 1), r |-> BigSub(r2, d)]
    ELSE [q |-> BigMulAdd(q, 2, 0), r |-> r2]

\* k steps of the division of n by d from bit i down; st is evaluated
\* before the next step starts
RECURSIVE BigDivBits(_, _, _, _, _)
BigDivBits(n, d, i, k, st) ==
    CASE Len(st.q) + Len(st.r) >= 0 ->
         IF k = 0 THEN st
         ELSE BigDivBits(n, d, i - 1, k - 1,
                         BigDivStep(d, st.q, BigMulAdd(st.r, 2, BigBit(n, i))))

\* the steps of limbs j down to 1 of n, a limb at a time
RECURSIVE BigDivAt(_, _, _, _)
BigDivAt(n, d, j, st) ==
    CASE Len(st.q) + Len(st.r) >= 0 ->
         IF j = 0 THEN st
         ELSE BigDivAt(n, d, j - 1,
                       BigDivBits(n, d, j * LimbBits - 1, LimbBits, st))

\* quotient q and remainder r of n by d, both operands evaluated first
BigDivMod(n, d) ==
    CASE Len(n) + Len(d) >= 0 ->
         BigDivAt(n, d, Len(n), [q |-> <<>>, r |-> <<>>])

\* q, or q + 1 when the remainder is above the half (c > 0) or is the half
\* (c = 0) and q is odd
BigRoundTie(q, c) ==
    IF c > 0 \/ (c = 0 /\ BigBit(q, 0) = 1) THEN BigMulAdd(q, 1, 1) ELSE q

BigRoundQR(qr, d) == BigRoundTie(qr.q, BigCmp(BigMulSmall(qr.r, 2), d))

\* n / d rounded to the nearest natural, a tie to the even one
BigRoundDiv(n, d) == BigRoundQR(BigDivMod(n, d), d)

\* A positive Python float (IEEE binary64 in its normal range) is the record
\* [m, e] of value m * 2^e with a significand m of exactly MantBits bits.
MantBits == 53

\* n * 2^s over d as a fraction of naturals
NumShl(n, s) == IF s >= 0 THEN BigShl(n, s) ELSE n
DenShl(d, s) == IF s >= 0 THEN d ELSE BigShl(d, -s)

\* a rounded significand of MantBits + 1 bits is a power of two
Float64Norm(m, e) ==
    IF BigBits(m) > MantBits THEN [m |-> BigDivMod(m, Big(2)).q, e |-> e + 1]
    ELSE [m |-> m, e |-> e]

\* the shift s for which n * 2^s / d has MantBits bits is s0 or s0 - 1
Float64Shift(n, d, s0) ==
    IF BigBits(BigDivMod(NumShl(n, s0), DenShl(d, s0)).q) > MantBits
    THEN s0 - 1 ELSE s0

Float64At(n, d, e, s) ==
    Float64Norm(BigRoundDiv(NumShl(n, s), DenShl(d, s)), e - s)

\* the float nearest to (n / d) * 2^e, a tie to the even significand: the
\* rounding of every float operation and of float(text)
Float64(n, d, e) ==
    CASE Len(n) + Len(d) >= 0 ->
         Float64At(n, d, e,
                   Float64Shift(n, d, MantBits - (BigBits(n) - BigBits(d))))

\* float(m.group(1)) of a level written with its decimals
float_of(v) == Float64(Big(v), Big(PRICE_SCALE), 0)

\* x - y for x > y, x / y, and x * k for a small natural k
FSubAt(x, y, e) ==
    Float64(BigSub(BigShl(x.m, x.e - e), BigShl(y.m, y.e - e)), Big(1), e)
FSub(x, y) == FSubAt(x, y, Min(x.e, y.e))
FDiv(x, y) == Float64(x.m, y.m, x.e - y.e)
FMulInt(x, k) == Float64(BigMulSmall(x.m, k), Big(1), x.e)

FLess(x, y) == x.e < y.e \/ (x.e = y.e /\ BigCmp(x.m, y.m) < 0)

\* max(x, y) of Python: x unless y is greater
FMax(x, y) == IF FLess(x, y) THEN y ELSE x

\* the literal 1e-12
Eps ==
    Float64(Big(1),
            BigMulSmall(BigMulSmall(BigMulSmall(Big(PRICE_SCALE), PRICE_SCALE),
                                    PRICE_SCALE), PRICE_SCALE), 0)

\* k // x for a natural k: float floor division returns the floor of the
\* exact quotient of the two floats
FFloorDivInt(k, x) ==
    IF x.e <= 0 THEN BigDivMod(BigShl(Big(k), -x.e), x.m).q
    ELSE BigDivMod(Big(k), BigShl(x.m, x.e)).q

\* float(f"{sl_pct:.6f}"), in millionths of a percent: the float's exact
\* value rounded to six decimals, a tie to the even digit
Fmt6At(n, e) ==
    IF e <= 0 THEN BigInt(BigRoundDiv(n, BigShl(Big(1), -e)))
    ELSE BigInt(BigShl(n, e))
Fmt6(x) == Fmt6At(BigMulSmall(BigMulSmall(x.m, PRICE_SCALE), PRICE_SCALE), x.e)

\* sl_pct = (entry - sl) / entry * 100.0, or (sl - entry) / entry * 100.0,
\* on the floats read from the text
sl_pct_floats(side, entry, sl) ==
    IF side = "long" THEN FMulInt(FDiv(FSub(entry, sl), entry), 100)
    ELSE FMulInt(FDiv(FSub(sl, entry), entry), 100)
sl_pct_of(side, entry, sl) == sl_pct_floats(side, float_of(entry), float_of(sl))

\* the stop-loss levels written next to the entry 100 in the texts of this
\* model, and all the pairs of an entry and a stop-loss level written there
StopLevels ==
    {10000, 95000, 96800, 99996, 99999, 100001, 100004, 101000, 105000, 200000}
LevelPairs == {<<2000, 2100>>} \cup {<<100000, sl>> : sl \in StopLevels}

\* sl_pct, its six-decimal rounding and SAFETY_PCT // max(sl_pct, 1e-12)
RiskOf(pct) ==
    [sl_pct |-> pct, fmt |-> Fmt6(pct),
     lev |-> FFloorDivInt(SAFETY_PCT, FMax(pct, Eps))]

\* the three for every one of these pairs, computed once
RiskTable ==
    [x \in {<<IF p[2] < p[1] THEN "long" ELSE "short", p[1], p[2]>> :
                p \in LevelPairs} |-> RiskOf(sl_pct_of(x[1], x[2], x[3]))]

\* lev = int(SAFETY_PCT // max(sl_pct, 1e-12)), then the floor at 1 and the
\* caps (a lev of at least 1 is above every cap below 1)
leverage_of(side, base, entry, sl) ==
    LET lev0 == RiskTable[<<side, entry, sl>>].lev
        lev1 == IF BigCmp(lev0, Big(1)) < 0 THEN Big(1) ELSE lev0
        lev2 == IF MAX_LEVERAGE < 1 \/ BigCmp(lev1, Big(MAX_LEVERAGE)) > 0
                THEN MAX_LEVERAGE ELSE BigInt(lev1)
    IN  IF base \in DOMAIN COIN_LEV_CAPS /\ lev2 > COIN_LEV_CAPS[base]
        THEN COIN_LEV_CAPS[base] ELSE lev2

\* base after the aliases LUNA -> LUNA2, SHIB -> 1000SHIB
alias_of(base) ==
    IF base = "LUNA" THEN "LUNA2" ELSE IF base = "SHIB" THEN "1000SHIB" ELSE base

\* the plausibility check of the levels
levels_plausible(side, entry, tp1, tp2, sl) ==
    IF side = "long" THEN sl < entry /\ tp1 > entry /\ tp2 > entry
    ELSE sl > entry /\ tp1 < entry /\ tp2 < entry

\* a quote check that lets every quote asset through
quote_accepted_any(quoted_raw) == TRUE

\* the quote check: quoted_raw in ("USD", "USDT")
quote_accepted(quoted_raw) == quoted_raw \in {"USD", "USDT"}

\* parse_signal_text: kind "ok" with the signal, or the exception raised:
\* "assert" (AssertionError), "skip" (SkipSignal), "value" (ValueError)
parse_signal_text(text) ==
    LET t == Strip(text)
        iSide == FirstLineWith(t, HasSide)
        iPair == FirstLineWith(t, HasPair)
        iE == FirstLineWith(t, HasEntry)
        iTP1 == FirstLineWith(t, HasTP1)
        iTP2 == FirstLineWith(t, HasTP2)
        iSL == FirstLineWith(t, HasSL)
    IN  IF t = <<>> \/ 0 \in {iSide, iPair, iE, iTP1, iTP2, iSL}
        THEN [kind |-> "assert"]
        ELSE
        LET side == IF t[iSide].kw = "BUY" THEN "long" ELSE "short"
            base == alias_of(t[iPair].base)
            entry == t[iE].price
            tp1 == t[iTP1].tp1
            tp2 == t[iTP2].tp2
            sl == t[iSL].sl
        IN  IF ~quote_accepted(t[iPair].quote) THEN [kind |-> "skip"]
            ELSE IF ~levels_plausible(side, entry, tp1, tp2, sl)
            THEN [kind |-> "value"]
            ELSE [kind |-> "ok",
                  side |-> side,
                  base |-> base,
                  quote_from_signal |-> "USDT",
                  entry |-> round_tick(base, entry),
                  tp1 |-> round_tick(base, tp1),
                  tp2 |-> round_tick(base, tp2),
                  sl |-> round_tick(base, sl),
                  sl_pct |-> RiskTable[<<side, entry, sl>>].fmt,
                  leverage |-> leverage_of(side, base, entry, sl),
                  symbol |-> <<ALTRADY_EXCHANGE, QUOTE, base>>]

-----------------------------------------------------------------------------
\* Leg filter (closes are positive integers; pivots are 1-based indices)

\* one iteration of zigzag_pivots' loop; up_change and down_change are taken
\* against the pivot value at the start of the iteration
zigzag_step(closes, pct, st, i) ==
    LET c == closes[i]
        up == (c - st.val) * 100 >= pct * st.val
        down == (st.val - c) * 100 >= pct * st.val
        st1 == IF st.dir >= 0
               THEN IF up
                    THEN [piv |-> st.piv \cup {st.i}, dir |-> 1, i |-> i, val |-> c]
                    ELSE IF c < st.val
                    THEN [st EXCEPT !.i = i, !.val = c]
                    ELSE st
               ELSE st
    IN  IF st1.dir <= 0
        THEN IF down
             THEN [piv |-> st1.piv \cup {st1.i}, dir |-> -1, i |-> i, val |-> c]
             ELSE IF c > st1.val
             THEN [st1 EXCEPT !.i = i, !.val = c]
             ELSE st1
        ELSE st1

RECURSIVE zigzag_loop(_, _, _, _)
zigzag_loop(closes, pct, st, i) ==
    IF i > Len(closes) THEN st
    ELSE zigzag_loop(closes, pct, zigzag_step(closes, pct, st, i), i + 1)

zigzag_pivots(closes, pct) ==
    IF closes = <<>> THEN <<>>
    ELSE LET st == zigzag_loop(closes, pct,
                       [piv |-> {}, dir |-> 0, i |-> 1, val |-> closes[1]], 2)
         IN  SortedSeq(st.piv \cup {st.i})

\* the b of the first triple (a, b, c) of recent that turns with the trend,
\* or recent[0]
leg_start(closes, recent, trend) ==
    LET hit(i) == IF trend = "up"
                  THEN closes[recent[i - 2]] < closes[recent[i - 1]]
                       /\ closes[recent[i]] > closes[recent[i - 1]]
                  ELSE closes[recent[i - 2]] > closes[recent[i - 1]]
                       /\ closes[recent[i]] < closes[recent[i - 1]]
        is == {i \in 3..Len(recent) : hit(i)}
    IN  IF is = {} THEN recent[1]
        ELSE recent[(CHOOSE i \in is : \A j \in is : i <= j) - 1]

\* infer_trend_and_leg with the operands of the trend comparison swapped
infer_trend_and_leg_swapped(closes, pivots) ==
    IF Len(pivots) < 3 THEN <<"unknown", 1>>
    ELSE LET recent == SubSeq(pivots, Max(1, Len(pivots) - 9), Len(pivots))
             n == Len(recent)
             trend == IF closes[recent[n - 1]] > closes[recent[n]]
                      THEN "up" ELSE "down"
             start == leg_start(closes, recent, trend)
             count == Cardinality({k \in 1..n : recent[k] >= start})
         IN  <<trend, Max(1, Min(5, count))>>

infer_trend_and_leg(closes, pivots) ==
    IF Len(pivots) < 3 THEN <<"unknown", 1>>
    ELSE LET recent == SubSeq(pivots, Max(1, Len(pivots) - 9), Len(pivots))
             n == Len(recent)
             trend == IF closes[recent[n]] > closes[recent[n - 1]]
                      THEN "up" ELSE "down"
             start == leg_start(closes, recent, trend)
             count == Cardinality({k \in 1..n : recent[k] >= start})
         IN  <<trend, Max(1, Min(5, count))>>

\* enforce_leg_filter without the trend check
enforce_leg_filter_no_trend(p, kl) ==
    IF ~LEG_FILTER THEN TRUE
    ELSE IF kl.raised THEN LEG_FAIL_MODE # "skip"
    ELSE LET tl == infer_trend_and_leg(kl.closes,
                       zigzag_pivots(kl.closes, LEG_ZIGZAG_PCT))
         IN  ~(tl[2] > 2)

\* enforce_leg_filter whose fail-open mode also swallows the classifier's
\* own SkipSignal
enforce_leg_filter_open_all(p, kl) ==
    IF ~LEG_FILTER THEN TRUE
    ELSE IF LEG_FAIL_MODE # "skip" THEN TRUE
    ELSE IF kl.raised THEN FALSE
    ELSE LET tl == infer_trend_and_leg(kl.closes,
                       zigzag_pivots(kl.closes, LEG_ZIGZAG_PCT))
             trend == tl[1]
             leg_idx == tl[2]
         IN  IF LEG_REQUIRE_TREND_MATCH /\ trend \in {"up", "down"}
                /\ ((p.side = "long" /\ trend # "up")
                    \/ (p.side = "short" /\ trend # "down"))
             THEN FALSE
             ELSE ~(leg_idx > 2)

\* enforce_leg_filter: TRUE when it returns, FALSE when it raises SkipSignal.
\* kl is the outcome of the klines fetch: the closes, or the fetch raised
enforce_leg_filter(p, kl) ==
    IF ~LEG_FILTER THEN TRUE
    ELSE IF kl.raised THEN LEG_FAIL_MODE # "skip"
    ELSE LET tl == infer_trend_and_leg(kl.closes,
                       zigzag_pivots(kl.closes, LEG_ZIGZAG_PCT))
             trend == tl[1]
             leg_idx == tl[2]
         IN  IF LEG_REQUIRE_TREND_MATCH /\ trend \in {"up", "down"}
                /\ ((p.side = "long" /\ trend # "up")
                    \/ (p.side = "short" /\ trend # "down"))
             THEN FALSE
             ELSE ~(leg_idx > 2)

-----------------------------------------------------------------------------
\* Payload and touch guard

build_altrady_payload(p, order_type) ==
    LET base == [exchange |-> ALTRADY_EXCHANGE,
                 action |-> "open",
                 symbol |-> p.symbol,
                 side |-> p.side,
                 order_type |-> order_type,
                 leverage |-> p.leverage,
                 take_profit |-> <<[price |-> p.tp1, position_percentage |-> TP1_PCT],
                                   [price |-> p.tp2, position_percentage |-> TP2_PCT]>>,
                 stop_loss |-> [stop_price |-> p.sl, protection_type |-> "BREAK_EVEN"],
                 entry_expiration |-> [time |-> ENTRY_EXPIRATION_MIN]]
    IN  IF order_type = "limit"
        THEN base @@ [signal_price |-> p.entry]
        ELSE base

\* tol_abs = entry * (ENTRY_TOL_PCT / 100.0), in 1/TOL_UNIT of a price unit
tol_abs_of(entry) == entry * ENTRY_TOL_PCT

\* should_wait_for_touch that also waits at the edge of the tolerance band
should_wait_for_touch_at_edge(side, lastp, entry, tol_abs) ==
    IF side = "long" THEN lastp * TOL_UNIT <= entry * TOL_UNIT - tol_abs
    ELSE lastp * TOL_UNIT >= entry * TOL_UNIT + tol_abs

\* should_wait_for_touch, prices scaled by TOL_UNIT to compare with tol_abs
should_wait_for_touch(side, lastp, entry, tol_abs) ==
    IF side = "long" THEN lastp * TOL_UNIT < entry * TOL_UNIT - tol_abs
    ELSE lastp * TOL_UNIT > entry * TOL_UNIT + tol_abs

\* the touch test inside the wait loop
is_touch(side, lastp, entry, tol_abs) ==
    IF side = "long" THEN lastp * TOL_UNIT >= entry * TOL_UNIT - tol_abs
    ELSE lastp * TOL_UNIT <= entry * TOL_UNIT + tol_abs

\* the touch order type taken from the environment unchecked
touch_order_type_unchecked == ENTRY_TOUCH_ORDER_TYPE

\* order_type = ENTRY_TOUCH_ORDER_TYPE if it is "market" or "limit", else "market"
touch_order_type ==
    IF ENTRY_TOUCH_ORDER_TYPE \in {"market", "limit"}
    THEN ENTRY_TOUCH_ORDER_TYPE ELSE "market"

-----------------------------------------------------------------------------
\* Inputs of the model: message texts, klines, price samples

SigLong == Line("BUY", "SOL", "USD", 100000, 105000, 110000, 95000)
SigShort == Line("SELL", "LUNA", "USDT", 2000, 1900, 1800, 2100)
SigBTC == Line("BUY", "SOL", "BTC", 100000, 105000, 110000, 95000)
SigNoSL == Line("SELL", "SOL", "USD", 100000, 95000, 90000, -1)
SigBad == Line("BUY", "SOL", "USD", 100000, 105000, 110000, 101000)
SigBTCNoSL == Line("BUY", "SOL", "BTC", 100000, 105000, 110000, -1)

\* content and embeds of the messages the channel can hold
MsgTexts ==
    { [content |-> <<TextLine>>, embeds |-> <<>>],
      [content |-> <<SigLong>>, embeds |-> <<>>],
      [content |-> <<SigLong, BlankLine, SigShort>>, embeds |-> <<>>],
      [content |-> <<SigBTC, SigShort>>, embeds |-> <<>>],
      [content |-> <<SigBTCNoSL, SigLong>>, embeds |-> <<>>],
      [content |-> <<SigNoSL, NoiseLine, SigLong>>, embeds |-> <<>>],
      [content |-> <<TextLine>>, embeds |-> << <<SigBad, BlankLine, TextLine>> >>] }

\* outcomes of the klines fetch: it raises, or it returns these closes
KlinesRaised == [raised |-> TRUE, closes |-> <<>>]
Klines(closes) == [raised |-> FALSE, closes |-> closes]

KlineInputs ==
    {KlinesRaised} \cup
    {Klines(c) : c \in {<<100, 101>>,
                        <<100, 120, 150>>,
                        <<150, 120, 100>>,
                        <<100, 120, 105, 130>>,
                        <<100, 80, 95, 70>>,
                        <<100, 120, 105, 130, 115, 140, 125, 150>>}}

\* prices the ticker can return for a signal with this entry: at and just
\* beyond entry -/+ tolerance
PriceInputs(entry) ==
    LET t == tol_abs_of(entry) \div TOL_UNIT
    IN  {entry - t - 1, entry - t, entry + t, entry + t + 1}

\* outcomes of one requests.post in post_to_altrady: accepted, HTTP 429,
\* raise_for_status raising HTTPError, requests raising another exception
PostErrors == {"http", "other"}

-----------------------------------------------------------------------------
\* State after construction: main() before its first iteration

InitMain ==
    /\ pc = "sleep"
    /\ chan = None
    /\ msg = None
    /\ last_id = 0
    /\ saved = 0
    /\ blocks = <<>>
    /\ idx = 0
    /\ parsed = None
    /\ first = [st |-> "none"]
    /\ last = -1
    /\ elapsed = 0
    /\ calls = 0
    /\ wpath = "none"
    /\ payload = None
    /\ attempt = 0
    /\ ticks = 0
    /\ bstate = <<>>
    /\ parsedCnt = [m \in 1..MaxMsgId |-> <<>>]
    /\ dispatchCnt = [m \in 1..MaxMsgId |-> <<>>]
    /\ acceptedCnt = [m \in 1..MaxMsgId |-> <<>>]
    /\ nblocks = [m \in 1..MaxMsgId |-> 0]
    /\ decided = [m \in 1..MaxMsgId |-> {}]
    /\ result = None

\* (with the leg filter off its two other options are never read: they keep
\* their defaults)
Init ==
    /\ MAX_LEVERAGE = 75
    /\ COIN_LEV_CAPS = [b \in {"LUNA2", "LUNA"} |-> 50]
    /\ LEG_FILTER \in BOOLEAN
    /\ LEG_REQUIRE_TREND_MATCH \in (IF LEG_FILTER THEN BOOLEAN ELSE {TRUE})
    /\ LEG_FAIL_MODE \in (IF LEG_FILTER THEN {"skip", "open"} ELSE {"skip"})
    /\ ENTRY_TOUCH_ORDER_TYPE \in {"market", "limit", "stop"}
    /\ TP_SPLITS_RAW = DefaultSplits
    /\ InitMain

-----------------------------------------------------------------------------
\* The channel

\* a new message is posted to the channel (read only at the next tick)
NewMessage ==
    /\ pc = "sleep"
    /\ (IF chan = None THEN 0 ELSE chan.id) < MaxMsgId
    /\ \E t \in MsgTexts :
        LET id == IF chan = None THEN 1 ELSE chan.id + 1
            m == [id |-> id, content |-> t.content, embeds |-> t.embeds]
            n == Len(extract_signal_blocks(m))
        IN  /\ chan' = m
            /\ nblocks' = [nblocks EXCEPT ![id] = n]
            /\ parsedCnt' = [parsedCnt EXCEPT ![id] = [j \in 1..n |-> 0]]
            /\ dispatchCnt' = [dispatchCnt EXCEPT ![id] = [j \in 1..n |-> 0]]
            /\ acceptedCnt' = [acceptedCnt EXCEPT ![id] = [j \in 1..n |-> 0]]
    /\ UNCHANGED <<cfgvars, pc, msg, last_id, saved, blocks, idx, parsed,
                   touchvars, ticks, bstate, decided, result>>

-----------------------------------------------------------------------------
\* main(): one poll tick

\* fetch_latest_message raises requests.HTTPError: logged, nothing else
FetchHTTPError ==
    /\ pc = "sleep"
    /\ ticks < MaxTicks
    /\ ticks' = ticks + 1
    /\ UNCHANGED <<cfgvars, mainvars, touchvars, bstate, parsedCnt,
                   dispatchCnt, acceptedCnt, nblocks, decided, result>>

\* fetch_latest_message raises another exception: the generic handler marks
\* the msg left over from the previous iteration, if any, as processed
FetchOtherError ==
    /\ pc = "sleep"
    /\ ticks < MaxTicks
    /\ ticks' = ticks + 1
    /\ IF msg # None
       THEN last_id' = msg.id /\ saved' = msg.id
       ELSE UNCHANGED <<last_id, saved>>
    /\ UNCHANGED <<cfgvars, pc, chan, msg, blocks, idx, parsed, touchvars,
                   bstate, parsedCnt, dispatchCnt, acceptedCnt, nblocks, decided, result>>

\* the channel is empty
FetchEmpty ==
    /\ pc = "sleep"
    /\ ticks < MaxTicks
    /\ chan = None
    /\ ticks' = ticks + 1
    /\ msg' = chan
    /\ UNCHANGED <<cfgvars, pc, chan, last_id, saved, blocks, idx, parsed,
                   touchvars, bstate, parsedCnt, dispatchCnt, acceptedCnt, nblocks, decided,
                   result>>

\* the latest message is not newer than last_id
FetchOld ==
    /\ pc = "sleep"
    /\ ticks < MaxTicks
    /\ chan # None
    /\ ~(last_id = 0 \/ chan.id > last_id)
    /\ ticks' = ticks + 1
    /\ msg' = chan
    /\ UNCHANGED <<cfgvars, pc, chan, last_id, saved, blocks, idx, parsed,
                   touchvars, bstate, parsedCnt, dispatchCnt, acceptedCnt, nblocks, decided,
                   result>>

\* a newer message without signal blocks: marked as processed (the record
\* of the previous pass's last call is cleared)
FetchNoBlocks ==
    /\ pc = "sleep"
    /\ ticks < MaxTicks
    /\ chan # None
    /\ last_id = 0 \/ chan.id > last_id
    /\ extract_signal_blocks(chan) = <<>>
    /\ ticks' = ticks + 1
    /\ msg' = chan
    /\ blocks' = <<>>
    /\ last_id' = chan.id
    /\ saved' = chan.id
    /\ bstate' = <<>>
    /\ first' = [st |-> "none"]
    /\ wpath' = "none"
    /\ payload' = None
    /\ calls' = 0
    /\ UNCHANGED <<cfgvars, pc, chan, idx, parsed, last, elapsed, attempt,
                   parsedCnt, dispatchCnt, acceptedCnt, nblocks, decided, result>>

\* a newer message with signal blocks: the for loop is entered (the record
\* of the previous pass's last call is cleared)
FetchNew ==
    /\ pc = "sleep"
    /\ ticks < MaxTicks
    /\ chan # None
    /\ last_id = 0 \/ chan.id > last_id
    /\ extract_signal_blocks(chan) # <<>>
    /\ ticks' = ticks + 1
    /\ msg' = chan
    /\ blocks' = extract_signal_blocks(chan)
    /\ idx' = 0
    /\ pc' = "block"
    /\ bstate' = [j \in 1..Len(extract_signal_blocks(chan)) |-> "pending"]
    /\ first' = [st |-> "none"]
    /\ wpath' = "none"
    /\ payload' = None
    /\ calls' = 0
    /\ UNCHANGED <<cfgvars, chan, last_id, saved, parsed, last, elapsed,
                   attempt, parsedCnt, dispatchCnt, acceptedCnt, nblocks, decided, result>>

\* block i ended with outcome o: the for loop goes on to the next block, or
\* past the last one to "last_id = mid; save_state(state)"
EndBlock(i, o) ==
    /\ bstate' = [bstate EXCEPT ![i] = o]
    /\ decided' = [decided EXCEPT ![msg.id] = @ \cup {i}]
    /\ idx' = i
    /\ IF i < Len(blocks)
       THEN /\ pc' = "block"
            /\ UNCHANGED <<last_id, saved>>
       ELSE /\ pc' = "sleep"
            /\ last_id' = msg.id
            /\ saved' = msg.id

\* an exception leaves the for loop and reaches main()'s handlers:
\* requests.HTTPError is logged; any other marks msg as processed
RaiseToMain(kind) ==
    /\ bstate' = [bstate EXCEPT ![idx] = "raised"]
    /\ decided' = [decided EXCEPT ![msg.id] = @ \cup {idx}]
    /\ pc' = "sleep"
    /\ UNCHANGED idx
    /\ IF kind = "http"
       THEN UNCHANGED <<last_id, saved>>
       ELSE last_id' = msg.id /\ saved' = msg.id

\* parse_signal_text and enforce_leg_filter on block idx; wpath and payload
\* record the block's call of wait_for_touch_and_send, if it comes to one
ProcessBlock ==
    /\ pc = "block"
    /\ parsedCnt' = [parsedCnt EXCEPT ![msg.id][idx + 1] = @ + 1]
    /\ LET i == idx + 1
           r == parse_signal_text(blocks[i])
       IN  \E kl \in KlineInputs :
            IF r.kind = "ok" /\ enforce_leg_filter(r, kl)
            THEN /\ parsed' = r
                 /\ idx' = i
                 /\ pc' = "evaluating"
                 /\ bstate' = [bstate EXCEPT ![i] = "evaluating"]
                 /\ UNCHANGED <<last_id, saved, decided>>
            ELSE /\ EndBlock(i, IF r.kind \in {"assert", "value"}
                                THEN "dropped" ELSE "skipped")
                 /\ parsed' = IF r.kind = "ok" THEN r ELSE parsed
    /\ first' = [st |-> "none"]
    /\ last' = -1
    /\ elapsed' = 0
    /\ attempt' = 0
    /\ wpath' = "none"
    /\ payload' = None
    /\ calls' = 0
    /\ UNCHANGED <<cfgvars, chan, msg, blocks, ticks, dispatchCnt, acceptedCnt, nblocks,
                   result>>

-----------------------------------------------------------------------------
\* wait_for_touch_and_send

\* wait_for_touch_and_send is left: its locals last, t0 and post_to_altrady's
\* attempt are gone
LeaveTouch ==
    /\ last' = -1
    /\ elapsed' = 0
    /\ attempt' = 0

\* post_to_altrady(payload) is entered
CallPost(pl) ==
    /\ payload' = pl
    /\ attempt' = 0
    /\ calls' = calls + 1
    /\ dispatchCnt' = [dispatchCnt EXCEPT ![msg.id][idx] = @ + 1]
    /\ UNCHANGED acceptedCnt
    /\ pc' = "post"

\* Evaluating that fails closed: the first price fetch raises and the call
\* returns False without a dispatch
EvaluateFetchFails_closed ==
    /\ pc = "evaluating"
    /\ first' = [st |-> "fail"]
    /\ wpath' = "timedout"
    /\ EndBlock(idx, "timedout")
    /\ LeaveTouch
    /\ UNCHANGED <<cfgvars, chan, msg, blocks, parsed, payload, calls, ticks,
                   parsedCnt, dispatchCnt, acceptedCnt, nblocks, result>>

\* Evaluating: the first price fetch raises -> fail-open, limit order at entry
EvaluateFetchFails ==
    /\ pc = "evaluating"
    /\ first' = [st |-> "fail"]
    /\ wpath' = "failopen"
    /\ CallPost(build_altrady_payload(parsed, "limit"))
    /\ UNCHANGED <<cfgvars, chan, msg, last_id, saved, blocks, idx, parsed,
                   last, elapsed, ticks, bstate, parsedCnt, nblocks, decided,
                   result>>

\* Immediate path that uses the touch order type instead of "limit"
EvaluateImmediate_touch_type ==
    /\ pc = "evaluating"
    /\ \E price \in PriceInputs(parsed.entry) :
        /\ ~should_wait_for_touch(parsed.side, price, parsed.entry,
                                  tol_abs_of(parsed.entry))
        /\ first' = [st |-> "ok", price |-> price]
        /\ last' = price
    /\ wpath' = "immediate"
    /\ CallPost(build_altrady_payload(parsed, touch_order_type))
    /\ UNCHANGED <<cfgvars, chan, msg, last_id, saved, blocks, idx, parsed,
                   elapsed, ticks, bstate, parsedCnt, nblocks, decided, result>>

\* Evaluating: the first price is fetched; no wait needed -> limit at entry
EvaluateImmediate ==
    /\ pc = "evaluating"
    /\ \E price \in PriceInputs(parsed.entry) :
        /\ ~should_wait_for_touch(parsed.side, price, parsed.entry,
                                  tol_abs_of(parsed.entry))
        /\ first' = [st |-> "ok", price |-> price]
        /\ last' = price
    /\ wpath' = "immediate"
    /\ CallPost(build_altrady_payload(parsed, "limit"))
    /\ UNCHANGED <<cfgvars, chan, msg, last_id, saved, blocks, idx, parsed,
                   elapsed, ticks, bstate, parsedCnt, nblocks, decided, result>>

\* Evaluating: the first price is fetched; the wait loop is entered (t0 = now)
EvaluateWait ==
    /\ pc = "evaluating"
    /\ \E price \in PriceInputs(parsed.entry) :
        /\ should_wait_for_touch(parsed.side, price, parsed.entry,
                                 tol_abs_of(parsed.entry))
        /\ first' = [st |-> "ok", price |-> price]
        /\ last' = price
    /\ wpath' = "waiting"
    /\ elapsed' = 0
    /\ pc' = "waiting"
    /\ bstate' = [bstate EXCEPT ![idx] = "waiting"]
    /\ UNCHANGED <<cfgvars, chan, msg, last_id, saved, blocks, idx, parsed,
                   payload, attempt, calls, ticks, parsedCnt, dispatchCnt, acceptedCnt,
                   nblocks, decided, result>>

\* time.sleep(max(0.5, ENTRY_POLL_SEC)), in half seconds
PollSleep == Max(1, 2 * ENTRY_POLL_SEC)

\* one iteration of the wait loop whose price fetch raises: continue
WaitFetchFails ==
    /\ pc = "waiting"
    /\ elapsed <= 2 * ENTRY_WAIT_MAX_SEC
    /\ \E delay \in 0..MaxFetchDelay : elapsed' = elapsed + PollSleep + delay
    /\ UNCHANGED <<cfgvars, mainvars, first, last, wpath, payload, attempt,
                   calls, ticks, bstate, parsedCnt, dispatchCnt, acceptedCnt, nblocks,
                   decided, result>>

\* one iteration of the wait loop whose sample does not touch the entry
WaitNoTouch ==
    /\ pc = "waiting"
    /\ elapsed <= 2 * ENTRY_WAIT_MAX_SEC
    /\ \E delay \in 0..MaxFetchDelay : elapsed' = elapsed + PollSleep + delay
    /\ \E price \in PriceInputs(parsed.entry) :
        /\ ~is_touch(parsed.side, price, parsed.entry, tol_abs_of(parsed.entry))
        /\ last' = price
    /\ UNCHANGED <<cfgvars, mainvars, first, wpath, payload, attempt, calls,
                   ticks, bstate, parsedCnt, dispatchCnt, acceptedCnt, nblocks, decided,
                   result>>

\* one iteration of the wait loop whose sample touches the entry: dispatch
WaitTouch ==
    /\ pc = "waiting"
    /\ elapsed <= 2 * ENTRY_WAIT_MAX_SEC
    /\ \E delay \in 0..MaxFetchDelay : elapsed' = elapsed + PollSleep + delay
    /\ \E price \in PriceInputs(parsed.entry) :
        /\ is_touch(parsed.side, price, parsed.entry, tol_abs_of(parsed.entry))
        /\ last' = price
    /\ wpath' = "touched"
    /\ CallPost(build_altrady_payload(parsed, touch_order_type))
    /\ UNCHANGED <<cfgvars, chan, msg, last_id, saved, blocks, idx, parsed,
                   first, ticks, bstate, parsedCnt, nblocks, decided, result>>

\* a timeout that sends the order all the same
WaitTimeout_sends ==
    /\ pc = "waiting"
    /\ ~(elapsed <= 2 * ENTRY_WAIT_MAX_SEC)
    /\ wpath' = "timedout"
    /\ CallPost(build_altrady_payload(parsed, touch_order_type))
    /\ UNCHANGED <<cfgvars, chan, msg, last_id, saved, blocks, idx, parsed,
                   first, last, elapsed, ticks, bstate, parsedCnt, nblocks,
                   decided, result>>

\* a wait loop whose time check never fails
WaitTimeout_never == FALSE

\* the loop's time check fails: return False, main() logs "Kein Entry"
WaitTimeout ==
    /\ pc = "waiting"
    /\ ~(elapsed <= 2 * ENTRY_WAIT_MAX_SEC)
    /\ wpath' = "timedout"
    /\ EndBlock(idx, "timedout")
    /\ LeaveTouch
    /\ UNCHANGED <<cfgvars, chan, msg, blocks, parsed, first, payload, calls,
                   ticks, parsedCnt, dispatchCnt, acceptedCnt, nblocks, result>>

-----------------------------------------------------------------------------
\* post_to_altrady: up to three attempts

\* the POST is accepted: return r; wait_for_touch_and_send returns True
PostOk ==
    /\ pc = "post"
    /\ acceptedCnt' = [acceptedCnt EXCEPT ![msg.id][idx] = @ + 1]
    /\ EndBlock(idx, "sent")
    /\ LeaveTouch
    /\ UNCHANGED <<cfgvars, chan, msg, blocks, parsed, first, wpath, payload,
                   calls, ticks, parsedCnt, dispatchCnt, nblocks, result>>

\* HTTP 429: sleep and continue; after the third attempt the loop ends and
\* post_to_altrady returns None, so wait_for_touch_and_send returns True
Post429 ==
    /\ pc = "post"
    /\ IF attempt < 2
       THEN /\ attempt' = attempt + 1
            /\ UNCHANGED <<pc, idx, last_id, saved, bstate, decided, last,
                           elapsed>>
       ELSE /\ EndBlock(idx, "sent")
            /\ LeaveTouch
    /\ UNCHANGED <<cfgvars, chan, msg, blocks, parsed, first, wpath, payload,
                   calls, ticks, parsedCnt, dispatchCnt, acceptedCnt, nblocks, result>>

\* the attempt raises: retried, and re-raised on the third attempt
PostError ==
    /\ pc = "post"
    /\ \E kind \in PostErrors :
        IF attempt < 2
        THEN /\ attempt' = attempt + 1
             /\ UNCHANGED <<pc, idx, last_id, saved, bstate, decided, last,
                            elapsed>>
        ELSE /\ RaiseToMain(kind)
             /\ LeaveTouch
    /\ UNCHANGED <<cfgvars, chan, msg, blocks, parsed, first, wpath, payload,
                   calls, ticks, parsedCnt, dispatchCnt, acceptedCnt, nblocks, result>>

-----------------------------------------------------------------------------

Next ==
    \/ NewMessage
    \/ FetchHTTPError
    \/ FetchOtherError
    \/ FetchEmpty
    \/ FetchOld
    \/ FetchNoBlocks
    \/ FetchNew
    \/ ProcessBlock
    \/ EvaluateFetchFails
    \/ EvaluateImmediate
    \/ EvaluateWait
    \/ WaitFetchFails
    \/ WaitNoTouch
    \/ WaitTouch
    \/ WaitTimeout
    \/ PostOk
    \/ Post429
    \/ PostError

Spec == Init /\ [][Next]_vars

\* the steps of wait_for_touch_and_send and of the post_to_altrady it calls
TouchStep ==
    \/ EvaluateFetchFails
    \/ EvaluateImmediate
    \/ EvaluateWait
    \/ WaitFetchFails
    \/ WaitNoTouch
    \/ WaitTouch
    \/ WaitTimeout
    \/ PostOk
    \/ Post429
    \/ PostError

\* One call of wait_for_touch_and_send on its own: main() has read message 1
\* with a single block, parsed it and passed the leg filter
InitTouch ==
    /\ MAX_LEVERAGE = 75
    /\ COIN_LEV_CAPS = [b \in {"LUNA2", "LUNA"} |-> 50]
    /\ LEG_FILTER = FALSE
    /\ LEG_REQUIRE_TREND_MATCH = TRUE
    /\ LEG_FAIL_MODE = "skip"
    /\ ENTRY_TOUCH_ORDER_TYPE \in {"market", "limit", "stop"}
    /\ TP_SPLITS_RAW = DefaultSplits
    /\ \E sig \in {SigLong, SigShort} :
        LET m == [id |-> 1, content |-> <<sig>>, embeds |-> <<>>]
        IN  /\ chan = m
            /\ msg = m
            /\ blocks = extract_signal_blocks(m)
            /\ parsed = parse_signal_text(extract_signal_blocks(m)[1])
    /\ pc = "evaluating"
    /\ idx = 1
    /\ bstate = <<"evaluating">>
    /\ last_id = 0
    /\ saved = 0
    /\ first = [st |-> "none"]
    /\ last = -1
    /\ elapsed = 0
    /\ calls = 0
    /\ wpath = "none"
    /\ payload = None
    /\ attempt = 0
    /\ ticks = 1
    /\ parsedCnt = [m \in 1..MaxMsgId |-> IF m = 1 THEN <<1>> ELSE <<>>]
    /\ dispatchCnt = [m \in 1..MaxMsgId |-> IF m = 1 THEN <<0>> ELSE <<>>]
    /\ acceptedCnt = [m \in 1..MaxMsgId |-> IF m = 1 THEN <<0>> ELSE <<>>]
    /\ nblocks = [m \in 1..MaxMsgId |-> IF m = 1 THEN 1 ELSE 0]
    /\ decided = [m \in 1..MaxMsgId |-> {}]
    /\ result = None

\* main() is one thread: a call of wait_for_touch_and_send that can take a
\* step takes one (every request carries a timeout, every sleep ends)
SpecTouch == InitTouch /\ [][TouchStep]_vars /\ WF_vars(TouchStep)

-----------------------------------------------------------------------------
\* parse_signal_text on its own: every configuration of the leverage caps,
\* every block of ParseInputs

GlobalCaps == {0, 1, 20, 75}
CoinCaps == {0, 10, 50, 100}

ParseLevels ==
    {<<e, t1, t2, sl>> :
        e \in {100000},
        t1 \in {105000, 95000},
        t2 \in {110000, 90000},
        sl \in {-1} \cup (StopLevels \ {101000})}

ParseInputs ==
    {<<Line(kw, base, quote, lv[1], lv[2], lv[3], lv[4])>> :
        kw \in {"BUY", "SELL"},
        base \in {"SOL", "LUNA", "LUNA2", "SHIB", "XYZ"},
        quote \in {"USD", "BTC"},
        lv \in ParseLevels}

InitParse ==
    /\ MAX_LEVERAGE \in GlobalCaps
    /\ COIN_LEV_CAPS \in [{"LUNA2", "LUNA"} -> CoinCaps]
    /\ LEG_FILTER = FALSE
    /\ LEG_REQUIRE_TREND_MATCH = TRUE
    /\ LEG_FAIL_MODE = "skip"
    /\ ENTRY_TOUCH_ORDER_TYPE = "market"
    /\ TP_SPLITS_RAW = DefaultSplits
    /\ InitMain

\* one call of parse_signal_text; result keeps the text and what came back
ParseCall ==
    /\ result = None
    /\ \E text \in ParseInputs :
        result' = [text |-> text, out |-> parse_signal_text(text)]
    /\ UNCHANGED <<cfgvars, mainvars, touchvars, histvars>>

NextParse == ParseCall

SpecParse == InitParse /\ [][NextParse]_vars

\* the cap that applies to an instrument: its own when it has one, else the
\* global one
InstrumentCap(base) ==
    IF base \in DOMAIN COIN_LEV_CAPS THEN COIN_LEV_CAPS[base] ELSE MAX_LEVERAGE

\* C10 as stated: for every accepted signal and every configuration of
\* MAX_LEVERAGE and COIN_LEV_CAPS, 1 <= leverage <= min(globalCap,
\* instrumentCap).
C10_LeverageRange_Original ==
    (result # None /\ result.out.kind = "ok") =>
        /\ result.out.leverage \in Int
        /\ 1 <= result.out.leverage
        /\ result.out.leverage <= Min(MAX_LEVERAGE, InstrumentCap(result.out.base))

\* C10, the part the code keeps: leverage <= min(globalCap, instrumentCap) in
\* every configuration, and 1 <= leverage whenever that minimum is at least 1.
C10_LeverageRange ==
    (result # None /\ result.out.kind = "ok") =>
        LET cap == Min(MAX_LEVERAGE, InstrumentCap(result.out.base))
        IN  /\ result.out.leverage \in Int
            /\ result.out.leverage <= cap
            /\ cap >= 1 => 1 <= result.out.leverage

C10_Witness ==
    /\ result # None
    /\ result.out.kind = "ok"
    /\ result.out.base = "LUNA2"
    /\ MAX_LEVERAGE = 75
    /\ COIN_LEV_CAPS["LUNA2"] = 50
    /\ result.out.leverage = 50

\* C11: level ordering of the parser's output. Every value returned by
\* parse_signal_text, whose levels are the tick-rounded ones, has
\* stopLoss < entry < takeProfit1 and entry < takeProfit2 for a long, and the
\* mirrored inequalities for a short.
C11_LevelOrdering ==
    (result # None /\ result.out.kind = "ok") =>
        IF result.out.side = "long"
        THEN /\ result.out.sl < result.out.entry
             /\ result.out.entry < result.out.tp1
             /\ result.out.entry < result.out.tp2
        ELSE /\ result.out.sl > result.out.entry
             /\ result.out.entry > result.out.tp1
             /\ result.out.entry > result.out.tp2

\* floor(safetyBudgetPct / stopLossPct) in exact arithmetic, for the
\* directional distance dist = |entry - stopLoss| of the unrounded levels
\* (stopLossPct = dist / entry * 100), raised to 1 and capped
FormulaLeverage(base, entry, dist) ==
    LET lev0 == (SAFETY_PCT * entry) \div (100 * dist)
        lev1 == IF lev0 < 1 THEN 1 ELSE lev0
        lev2 == Min(lev1, MAX_LEVERAGE)
    IN  IF base \in DOMAIN COIN_LEV_CAPS THEN Min(lev2, COIN_LEV_CAPS[base])
        ELSE lev2

\* C19: leverage formula. For every accepted signal stopLossPct is the
\* directional distance (entry - stopLoss) / entry * 100 for a long and
\* (stopLoss - entry) / entry * 100 for a short, computed from the unrounded
\* levels and strictly positive, and leverage equals
\* floor(safetyBudgetPct / stopLossPct) raised to at least 1, capped at the
\* global maximum and then at the maximum of the alias-normalized instrument
\* when it has one.
C19_LeverageFormula ==
    (result # None /\ result.out.kind = "ok") =>
        LET l == result.text[1]
            dist == IF result.out.side = "long" THEN l.price - l.sl
                    ELSE l.sl - l.price
        IN  /\ dist > 0
            /\ result.out.sl_pct > 0
            /\ result.out.leverage = FormulaLeverage(result.out.base, l.price, dist)

\* C19, the example of the specification: entry 100 and stop loss 95 with
\* the budget 80 and the cap 75 give stopLossPct 5 and leverage 16.
C19_Example ==
    (/\ result # None
     /\ result.out.kind = "ok"
     /\ result.out.base = "SOL"
     /\ result.text[1].price = 100000
     /\ result.text[1].sl = 95000
     /\ MAX_LEVERAGE = 75) =>
        /\ result.out.sl_pct = 5000000
        /\ result.out.leverage = 16

-----------------------------------------------------------------------------
\* Properties of the main loop

\* C1: per-block isolation. Whatever happens to block i of a message (parse
\* failure, SkipSignal, leg-filter reject, touch timeout, or post_to_altrady
\* raising after its retries), every later block of the message is still
\* parsed and reaches its own dispatch decision: when the pass over the
\* message is over, no block of it is still unprocessed.
C1_PerBlockIsolation ==
    pc = "sleep" => \A j \in 1..Len(bstate) : bstate[j] # "pending"

\* C2: watermark ordering. last_id is set to a message's id, and saved, only
\* after every block of that message reached a terminal outcome.
C2_WatermarkAfterAllBlocks ==
    \A w \in {last_id, saved} :
        w # 0 => decided[w] = 1..nblocks[w]

\* C3: single forward decision per block. Over any run, each block of each
\* message is parsed at most once and causes at most one order dispatch.
C3_SingleForwardDecision ==
    \A m \in 1..MaxMsgId :
        \A j \in 1..nblocks[m] :
            parsedCnt[m][j] <= 1 /\ dispatchCnt[m][j] <= 1

-----------------------------------------------------------------------------
\* Properties of wait_for_touch_and_send (one call per parsed block; first,
\* wpath, payload and calls describe the block's call)

\* the wait condition of the specification, on the prices of the state
NeedsWait(side, price, entry) ==
    \/ side = "long" /\ price * TOL_UNIT < entry * TOL_UNIT - entry * ENTRY_TOL_PCT
    \/ side = "short" /\ price * TOL_UNIT > entry * TOL_UNIT + entry * ENTRY_TOL_PCT

\* the touch condition of the specification
Touches(side, price, entry) ==
    \/ side = "long" /\ price * TOL_UNIT >= entry * TOL_UNIT - entry * ENTRY_TOL_PCT
    \/ side = "short" /\ price * TOL_UNIT <= entry * TOL_UNIT + entry * ENTRY_TOL_PCT

EnteredWaiting == wpath \in {"waiting", "touched", "timedout"}

\* the payload carries the levels of the parsed signal
CarriesLevels(pl, p) ==
    /\ pl.take_profit[1].price = p.tp1
    /\ pl.take_profit[2].price = p.tp2
    /\ pl.stop_loss.stop_price = p.sl
    /\ pl.side = p.side
    /\ pl.order_type = "limit" => pl.signal_price = p.entry

\* the call has returned to main()
Returned == pc \in {"block", "sleep"}

\* C4: Evaluating. When the first price fetch succeeds, the dispatcher enters
\* Waiting iff (long and price < entry - tol) or (short and price > entry +
\* tol), tol = entry * tolerancePct / 100; otherwise it takes the Immediate
\* path, without polling.
C4_EvaluatingTransition ==
    first.st = "ok" =>
        /\ EnteredWaiting <=> NeedsWait(parsed.side, first.price, parsed.entry)
        /\ wpath = "immediate" <=> ~NeedsWait(parsed.side, first.price, parsed.entry)
        /\ (wpath = "immediate" /\ pc = "post") => last = first.price /\ elapsed = 0

C4_Witness ==
    /\ pc = "waiting"
    /\ elapsed = 0
    /\ parsed.side = "long"
    /\ first.st = "ok"
    /\ first.price * TOL_UNIT < parsed.entry * TOL_UNIT - parsed.entry * ENTRY_TOL_PCT

C8_FailOpen ==
    first.st = "fail" =>
        /\ wpath = "failopen"
        /\ calls = 1
        /\ payload.order_type = "limit"
        /\ payload.signal_price = parsed.entry
        /\ CarriesLevels(payload, parsed)
        /\ elapsed = 0
        /\ bstate[idx] \notin {"waiting", "timedout"}

C8_Witness ==
    /\ first.st = "fail"
    /\ Returned
    /\ bstate[idx] = "sent"

\* C9: independent waits. The evaluation and wait of a later block of a
\* message do not have to wait for an earlier block's Waiting to end: no
\* block is still unevaluated while an earlier block of the same message
\* has been waiting for a poll interval or more.
C9_IndependentWaits ==
    ~(\E i \in 1..Len(bstate) :
        /\ bstate[i] = "waiting"
        /\ elapsed > 0
        /\ \E j \in (i + 1)..Len(bstate) : bstate[j] = "pending")

\* the block names a pair whose quote asset is not USD or USDT
UnsupportedQuote(b) ==
    /\ FirstLineWith(b, HasPair) # 0
    /\ b[FirstLineWith(b, HasPair)].quote \notin {"USD", "USDT"}

\* the block has all six required fields
AllFields(b) ==
    0 \notin {FirstLineWith(b, HasSide), FirstLineWith(b, HasPair),
              FirstLineWith(b, HasEntry), FirstLineWith(b, HasTP1),
              FirstLineWith(b, HasTP2), FirstLineWith(b, HasSL)}

\* what main() does with a block of the current message that is not taken
\* to the dispatcher: no price is fetched and no order is dispatched for it,
\* and the block after it is still processed
NotDispatched(i) ==
    /\ dispatchCnt[msg.id][i] = 0
    /\ (i = idx /\ bstate[i] # "pending") =>
            (first.st = "none" /\ calls = 0 /\ payload = None)
    /\ (pc = "sleep" /\ bstate[i] # "pending" /\ i < Len(bstate)) =>
            bstate[i + 1] # "pending"

\* C12 as stated: for any block whose pair's quote asset is not USD or USDT
\* the parser raises the skip error, no price is fetched and no order is
\* dispatched for that block, and the following blocks are still processed.
C12_UnsupportedQuoteSkip_Original ==
    \A i \in 1..Len(bstate) :
        UnsupportedQuote(blocks[i]) =>
            /\ bstate[i] \in {"pending", "skipped"}
            /\ NotDispatched(i)

\* C12 amended: a block with all six required fields whose quote asset is
\* not USD or USDT raises the skip error; a block with such a quote that
\* lacks a required field raises the parse error instead. Either way no
\* price is fetched, no order is dispatched for the block, and the
\* following blocks are still processed.
C12_UnsupportedQuoteSkip ==
    \A i \in 1..Len(bstate) :
        UnsupportedQuote(blocks[i]) =>
            /\ bstate[i] \in {"pending",
                               IF AllFields(blocks[i]) THEN "skipped"
                               ELSE "dropped"}
            /\ NotDispatched(i)

C12_Witness ==
    /\ Len(bstate) = 2
    /\ UnsupportedQuote(blocks[1])
    /\ AllFields(blocks[1])
    /\ bstate[1] = "skipped"
    /\ bstate[2] = "sent"
    /\ dispatchCnt[msg.id] = <<0, 1>>

-----------------------------------------------------------------------------
\* extract_signal_blocks on its own: one call on a message drawn from
\* ExtractInputs

\* sequences over S of length k, and of length 0..n
RECURSIVE SeqsOfLen(_, _)
SeqsOfLen(S, k) ==
    IF k = 0 THEN {<<>>}
    ELSE {Append(q, x) : q \in SeqsOfLen(S, k - 1), x \in S}

SeqsUpTo(S, n) == UNION {SeqsOfLen(S, k) : k \in 0..n}

ExtractLines == {SigLong, SigShort, TextLine, BlankLine, NoiseLine}

\* messages of up to MaxLines lines of content, without an embed or with an
\* embed description of one line
ExtractInputs ==
    {[id |-> 1, content |-> c, embeds |-> e] :
        c \in SeqsUpTo(ExtractLines, MaxLines),
        e \in {<<>>, << <<SigShort>> >>, << <<TextLine>> >>}}

InitExtract ==
    /\ MAX_LEVERAGE = 75
    /\ COIN_LEV_CAPS = [b \in {"LUNA2", "LUNA"} |-> 50]
    /\ LEG_FILTER = FALSE
    /\ LEG_REQUIRE_TREND_MATCH = TRUE
    /\ LEG_FAIL_MODE = "skip"
    /\ ENTRY_TOUCH_ORDER_TYPE = "market"
    /\ TP_SPLITS_RAW = DefaultSplits
    /\ InitMain

\* one call of extract_signal_blocks; result keeps the message, the stripped
\* text and the chunks kept, each with the start it was cut at
ExtractCall ==
    /\ result = None
    /\ \E m \in ExtractInputs :
        result' = [msg |-> m, raw |-> source_text(m), out |-> extract_chunks(m)]
    /\ UNCHANGED <<cfgvars, mainvars, touchvars, histvars>>

NextExtract == ExtractCall

SpecExtract == InitExtract /\ [][NextExtract]_vars

\* the keyword line a chunk cut at start begins with: the first keyword line
\* at or after start
KeywordLineAt(raw, start) ==
    CHOOSE k \in start..Len(raw) :
        IsKeywordLine(raw[k]) /\ \A j \in start..(k - 1) : ~IsKeywordLine(raw[j])

\* C13: extract_signal_blocks is order-preserving. The returned blocks are
\* in document order, each starts with a distinct keyword line, the start
\* offsets are strictly increasing, there are never more blocks than keyword
\* lines, and a text without a keyword line yields the empty list.
C13_OrderPreserving ==
    result # None =>
        LET raw == result.raw
            out == result.out
            nkw == Cardinality({k \in 1..Len(raw) : IsKeywordLine(raw[k])})
        IN  /\ \A i \in 1..Len(out) :
                /\ out[i].start \in 1..Len(raw)
                /\ \E k \in out[i].start..Len(raw) : IsKeywordLine(raw[k])
                /\ Len(out[i].chunk) > 0
                /\ out[i].chunk[1] = raw[KeywordLineAt(raw, out[i].start)]
            /\ \A i, j \in 1..Len(out) :
                i < j => /\ out[i].start < out[j].start
                         /\ KeywordLineAt(raw, out[i].start)
                              < KeywordLineAt(raw, out[j].start)
            /\ Len(out) <= nkw
            /\ nkw = 0 => out = <<>>

C13_Witness ==
    /\ result # None
    /\ Len(result.out) = 2
    /\ Cardinality({k \in 1..Len(result.raw) : IsKeywordLine(result.raw[k])}) = 3
    /\ result.out[1].chunk[1] = SigShort
    /\ result.out[2].chunk[1] = SigLong

-----------------------------------------------------------------------------
\* The leg classifier on its own: one call of zigzag_pivots and
\* infer_trend_and_leg on closes drawn from ZigzagInputs

CloseValues == {100, 101, 120, 150, 190}
ZigzagPcts == {0, 10, 30}
ZigzagInputs == SeqsUpTo(CloseValues, MaxCloses)

InitZigzag == InitExtract

\* piv = zigzag_pivots(closes, pct); trend, leg_idx = infer_trend_and_leg(closes, piv)
ZigzagCall ==
    /\ result = None
    /\ \E closes \in ZigzagInputs, pct \in ZigzagPcts :
        LET piv == zigzag_pivots(closes, pct)
        IN  result' = [closes |-> closes, pct |-> pct, piv |-> piv,
                       tl |-> infer_trend_and_leg(closes, piv)]
    /\ UNCHANGED <<cfgvars, mainvars, touchvars, histvars>>

NextZigzag == ZigzagCall

SpecZigzag == InitZigzag /\ [][NextZigzag]_vars

\* closes rise from each bar to the next
StrictlyIncreasing(closes) ==
    \A i \in 1..(Len(closes) - 1) : closes[i] < closes[i + 1]

\* C14: monotone series, pivot count. For every close-price sequence that is
\* monotonically increasing with no reversal and every pivot threshold,
\* zigzag_pivots returns at most two pivot indices in total.
C14_MonotonePivotCount ==
    (result # None /\ StrictlyIncreasing(result.closes)) => Len(result.piv) <= 2

\* C15 as stated: for every close-price sequence that is monotonically
\* increasing with no reversal the trend is "up", never "down" or "unknown".
C15_MonotoneTrend_Original ==
    (result # None /\ Len(result.closes) >= 2 /\ StrictlyIncreasing(result.closes))
        => result.tl[1] = "up"

\* C15 amended: for every strictly increasing close-price sequence the trend
\* is "up" when zigzag_pivots yields at least three pivots and "unknown" when
\* it yields fewer; it is never "down".
C15_MonotoneTrend ==
    (result # None /\ StrictlyIncreasing(result.closes)) =>
        result.tl[1] = (IF Len(result.piv) >= 3 THEN "up" ELSE "unknown")

C15_Witness ==
    /\ result # None
    /\ Len(result.closes) = 4
    /\ StrictlyIncreasing(result.closes)
    /\ Len(result.piv) >= 3
    /\ result.tl[1] = "up"

-----------------------------------------------------------------------------
\* enforce_leg_filter on its own: one call on a parsed signal, with the
\* klines fetch returning closes of ZigzagInputs or raising

InitLeg ==
    /\ MAX_LEVERAGE = 75
    /\ COIN_LEV_CAPS = [b \in {"LUNA2", "LUNA"} |-> 50]
    /\ LEG_FILTER \in BOOLEAN
    /\ LEG_REQUIRE_TREND_MATCH \in BOOLEAN
    /\ LEG_FAIL_MODE \in {"skip", "open"}
    /\ ENTRY_TOUCH_ORDER_TYPE = "market"
    /\ TP_SPLITS_RAW = DefaultSplits
    /\ InitMain

\* with the filter off the call returns before the fetch; with it on the
\* klines are fetched and classified. result.ok is FALSE for SkipSignal
LegCall ==
    /\ result = None
    /\ \E text \in {<<SigLong>>, <<SigShort>>} :
        LET p == parse_signal_text(text)
        IN  IF ~LEG_FILTER
            THEN result' = [side |-> p.side, fetched |-> FALSE,
                            kl |-> KlinesRaised,
                            ok |-> enforce_leg_filter(p, KlinesRaised)]
            ELSE \E kl \in {KlinesRaised} \cup {Klines(c) : c \in ZigzagInputs} :
                    result' = [side |-> p.side, fetched |-> TRUE, kl |-> kl,
                               ok |-> enforce_leg_filter(p, kl)]
    /\ UNCHANGED <<cfgvars, mainvars, touchvars, histvars>>

NextLeg == LegCall

SpecLeg == InitLeg /\ [][NextLeg]_vars

\* trend and leg index of the closes the call classified
TrendOf(kl) ==
    infer_trend_and_leg(kl.closes, zigzag_pivots(kl.closes, LEG_ZIGZAG_PCT))[1]
LegOf(kl) ==
    infer_trend_and_leg(kl.closes, zigzag_pivots(kl.closes, LEG_ZIGZAG_PCT))[2]

\* the classifier's own verdict on a side and closes: trend match required,
\* trend known and not the side's, or a leg index above the maximum, which
\* the code fixes at 2
ClassifierRejects(side, kl) ==
    \/ /\ LEG_REQUIRE_TREND_MATCH
       /\ TrendOf(kl) \in {"up", "down"}
       /\ \/ (side = "long" /\ TrendOf(kl) = "down")
          \/ (side = "short" /\ TrendOf(kl) = "up")
    \/ LegOf(kl) > 2

\* C16: leg-filter decision. With the filter enabled and classification
\* succeeding a signal is rejected exactly when trend match is required, the
\* trend is up or down and the side does not match, or the leg index exceeds
\* the maximum; with trend unknown and the leg index within the maximum it
\* is accepted; with the filter disabled every signal is accepted without
\* fetching price history.
C16_LegFilterDecision ==
    result # None =>
        /\ (LEG_FILTER /\ ~result.kl.raised) =>
            /\ result.fetched
            /\ result.ok = ~ClassifierRejects(result.side, result.kl)
            /\ (TrendOf(result.kl) = "unknown" /\ LegOf(result.kl) <= 2)
                    => result.ok
        /\ ~LEG_FILTER => (result.ok /\ ~result.fetched)

C16_Witness ==
    /\ result # None
    /\ LEG_FILTER
    /\ LEG_REQUIRE_TREND_MATCH
    /\ ~result.kl.raised
    /\ result.side = "short"
    /\ TrendOf(result.kl) = "up"
    /\ LegOf(result.kl) <= 2
    /\ ~result.ok

\* C17: classification failure policy. When the price-history fetch fails
\* during leg filtering, LEG_FAIL_MODE = skip rejects the block and fail-open
\* mode lets it proceed as if the filter were disabled; a reject decided by
\* the classifier itself is never turned into an accept by fail-open mode.
C17_FailurePolicy ==
    (result # None /\ LEG_FILTER) =>
        /\ result.kl.raised => (result.ok = (LEG_FAIL_MODE # "skip"))
        /\ (~result.kl.raised /\ ClassifierRejects(result.side, result.kl))
                => ~result.ok

C17_Witness ==
    /\ result # None
    /\ LEG_FILTER
    /\ LEG_FAIL_MODE = "open"
    /\ result.fetched
    /\ result.kl.raised
    /\ result.ok

-----------------------------------------------------------------------------
\* parse_tp_splits at import time and the payloads built with its result

SplitParts ==
    {BadPart} \cup
    {NumPart(t) : t \in {-200, 0, 5, 200, 209, 500, 800, 801, 1000, 1200}}

\* the TP_SPLITS strings: one to MaxParts comma-separated parts
SplitInputs == SeqsUpTo(SplitParts, MaxParts) \ {<<>>}

InitSplits ==
    /\ MAX_LEVERAGE = 75
    /\ COIN_LEV_CAPS = [b \in {"LUNA2", "LUNA"} |-> 50]
    /\ LEG_FILTER = FALSE
    /\ LEG_REQUIRE_TREND_MATCH = TRUE
    /\ LEG_FAIL_MODE = "skip"
    /\ ENTRY_TOUCH_ORDER_TYPE = "market"
    /\ TP_SPLITS_RAW \in SplitInputs
    /\ InitMain

\* build_altrady_payload for a parsed signal; result keeps the payload
BuildPayload ==
    /\ result = None
    /\ \E order_type \in {"limit", "market"} :
        result' = build_altrady_payload(parse_signal_text(<<SigLong>>), order_type)
    /\ UNCHANGED <<cfgvars, mainvars, touchvars, histvars>>

NextSplits == BuildPayload

SpecSplits == InitSplits /\ [][NextSplits]_vars

\* C18: take-profit split. For every raw TP_SPLITS string (valid, malformed,
\* non-integer, out of range or not summing to 100) parse_tp_splits returns
\* two positive integers whose sum is 100, so the two position_percentage
\* values of every built payload sum to 100.
C18_TakeProfitSplit ==
    /\ TP1_PCT \in 1..100
    /\ TP2_PCT \in 1..100
    /\ TP1_PCT + TP2_PCT = 100
    /\ result # None =>
        /\ result.take_profit[1].position_percentage = TP1_PCT
        /\ result.take_profit[2].position_percentage = TP2_PCT
        /\ result.take_profit[1].position_percentage
            + result.take_profit[2].position_percentage = 100

C18_Witness ==
    /\ TP_SPLITS_RAW = <<NumPart(500), NumPart(800)>>
    /\ result # None
    /\ result.take_profit[1].position_percentage = 20
    /\ result.take_profit[2].position_percentage = 80

-----------------------------------------------------------------------------
\* The wait budget

\* C20: timeout boundary. No order is dispatched on the basis of a price
\* sample taken after the elapsed wait exceeded ENTRY_WAIT_MAX_SEC, the poll
\* sleep that follows the loop's time check included. When the touch order
\* is posted, elapsed is the time at which the fetch of the touching sample
\* returned; the sample was taken no earlier than MaxFetchDelay before.
C20_NoDispatchAfterBudget ==
    (pc = "post" /\ wpath = "touched") =>
        elapsed - MaxFetchDelay <= 2 * ENTRY_WAIT_MAX_SEC

\* C20, the part the loop's time check gives: TimedOut is returned only
\* once the elapsed wait exceeds the budget, and no iteration starts after.
C20_TimeoutOnlyAfterBudget ==
    [][(pc = "waiting" /\ wpath' = "timedout") => elapsed > 2 * ENTRY_WAIT_MAX_SEC]_vars

-----------------------------------------------------------------------------
\* The leg index

\* the positions k of recent whose pivot has a pivot of lower close before it
\* and one of higher close after it (mirrored for a down trend)
ReversalPoints(closes, recent, trend) ==
    {k \in 1..Len(recent) :
        /\ \E i \in 1..(k - 1) :
              IF trend = "up" THEN closes[recent[i]] < closes[recent[k]]
              ELSE closes[recent[i]] > closes[recent[k]]
        /\ \E j \in (k + 1)..Len(recent) :
              IF trend = "up" THEN closes[recent[j]] > closes[recent[k]]
              ELSE closes[recent[j]] < closes[recent[k]]}

\* C21: leg index. For every close sequence with at least three pivots the
\* leg index returned by infer_trend_and_leg is in 1..5 and equals the number
\* of pivots from the most recent reversal point (the latest pivot with a
\* lower pivot before it and a higher pivot after it for an up trend,
\* mirrored for a down trend) up to the present, clamped to 1..5.
C21_LegIndex ==
    (result # None /\ Len(result.piv) >= 3) =>
        LET bs == ReversalPoints(result.closes, result.piv, result.tl[1])
            latest == CHOOSE k \in bs : \A j \in bs : j <= k
        IN  /\ result.tl[2] \in 1..5
            /\ bs # {} =>
                result.tl[2] = Max(1, Min(5, Len(result.piv) - latest + 1))

\* C21, the part the code keeps: the returned leg index is always in 1..5.
C21_LegRange ==
    result # None => result.tl[2] \in 1..5

-----------------------------------------------------------------------------
\* The outcome of a dispatch

\* C22: the dispatch outcome is never a silent failure. post_to_altrady
\* returns normally only if one attempt was accepted by the gateway, so
\* wait_for_touch_and_send returns True, and main() reports the order of a
\* block as placed, only after an accepted POST for that block.
C22_NoSilentFailure ==
    \A j \in 1..Len(bstate) :
        bstate[j] = "sent" => acceptedCnt[msg.id][j] >= 1

\* C22, the part the code keeps: post_to_altrady makes at most three POST
\* attempts (attempt counts the failed ones before the current one).
C22_AtMostThreeAttempts ==
    attempt \in 0..2

-----------------------------------------------------------------------------
\* Termination of the dispatcher

InTouch == pc \in {"evaluating", "waiting", "post"}

\* C23: termination of the dispatcher. For every signal and every sequence
\* of price samples and price-fetch failures (a fetch that fails on every
\* poll included), wait_for_touch_and_send eventually reaches a terminal
\* outcome (sent, timed out, or a raised dispatch error), every iteration
\* advancing the time by at least the poll sleep; and the wait loop is left
\* only by a touch or by the timeout.
C23_Termination ==
    /\ InTouch ~> Returned
    /\ [][(pc = "waiting" /\ pc' # "waiting") =>
            \/ wpath' = "touched"
            \/ wpath' = "timedout" /\ elapsed > 2 * ENTRY_WAIT_MAX_SEC]_vars

\* the wait loop, entered after a first sample, has run past its budget
C23_Witness ==
    /\ pc = "waiting"
    /\ first.st = "ok"
    /\ elapsed > 2 * ENTRY_WAIT_MAX_SEC

====
